---- MODULE Spec2Model ----
(***************************************************************************)
(* Model of the live trading loop of src/src/bot.py (run_trading_bot) and  *)
(* of the broker wrapper src/src/alpaca_api.py (User_Actions): Spec.        *)
(* DecisionSpec applies the two decision rules of the loop body to inputs  *)
(* on and around their thresholds.  SignalSpec is the live loop under a    *)
(* SIGINT that may arrive between any two steps (main.py).  BacktestSpec   *)
(* is the script                                                           *)
(* src/src/backtest.py.  Each specification leaves the variables of the    *)
(* others at their initial values.                                         *)
(*                                                                         *)
(* Units.  Money is in cents, time in minutes, a classifier probability in *)
(* thousandths, a predicted return in ten-thousandths, a percentage in     *)
(* whole percent.  All comparisons of the code are kept on these scaled    *)
(* integers (a/b <= -0.06 becomes 100*a <= -6*b for b > 0).                *)
(*                                                                         *)
(* Time.  clock is datetime.now() in whole minutes since the start; each   *)
(* time.sleep(60) advances it by one.  With COOLDOWN_MINUTES = 0, the      *)
(* value of the source, bot.py:101 compares now with an earlier now and    *)
(* is false whatever the time is; LivenessSpec runs in that configuration  *)
(* with the clock not tracked (Untimed), so that the loop runs for ever.   *)
(*                                                                         *)
(* A Python dict is a set of entries with a "symbol" key; DictSet and      *)
(* DictPop are its assignment and pop.                                     *)
(*                                                                         *)
(* One action is one iteration of the `for symbol in watchlist` loop, or   *)
(* one pass through the top of the `while True` loop.                      *)
(*                                                                         *)
(* Exceptions.  Calls into pandas, the models and the file system may      *)
(* raise.  bot.py:136 indexes the snapshot price with .iloc[0] while       *)
(* bot.py:156, 168 and 194 format the same object with :.2f and            *)
(* bot.py:175-190 compare values derived from it in an `if`; which of      *)
(* these raise depends on the object yfinance hands back, which the        *)
(* source does not fix.  Each such place is a choice between returning     *)
(* and raising.  An exception that escapes the loop body is caught at      *)
(* bot.py:200, logged, and followed by the sleep of bot.py:202, which      *)
(* ends the cycle.                                                         *)
(***************************************************************************)
EXTENDS Integers, Sequences, FiniteSets, TLC

VARIABLES
    COOLDOWN_MINUTES,   \* bot.py:51  configuration value
    MAX_TRADES,         \* bot.py:52  configuration value
    active_trades,      \* bot.py:55  dict symbol -> trade
    cooldown_tracker,   \* bot.py:56  dict symbol -> datetime
    ledger,             \* trade_log.csv, rows in file order
    account_cash,       \* alpaca_api.py:28  self.account.cash
    broker_cash,        \* the cash balance the broker holds for the account
    brokerPos,          \* symbols the broker lists as open positions
    closing,            \* symbols whose recorded trade had close_position called
    clock,              \* datetime.now(), minutes
    pc,                 \* "top" of the while loop, in the for "loop", "exited"
    idx,                \* index of the next watchlist symbol
    position_symbols,   \* bot.py:92  snapshot of this cycle
    cash,               \* bot.py:93  snapshot of this cycle
    last,               \* what the latest loop iteration printed / did
    call,               \* DecisionSpec: inputs and outcome of one decision
    capital,            \* backtest.py:26
    positions,          \* backtest.py:27
    trades,             \* backtest.py:28
    row,                \* backtest.py:30-33  i, price, prob, pred_return
    opened,             \* entry_index of every position appended to positions
    stage               \* backtest.py: before / in the row loop, or finished

vars == <<COOLDOWN_MINUTES, MAX_TRADES, active_trades, cooldown_tracker,
          ledger, account_cash, broker_cash, brokerPos, closing, clock, pc, idx,
          position_symbols, cash, last, call, capital, positions, trades,
          row, opened, stage>>

live == <<COOLDOWN_MINUTES, MAX_TRADES, active_trades, cooldown_tracker,
          ledger, account_cash, broker_cash, brokerPos, closing, clock, pc,
          idx, position_symbols, cash, last>>

backtest == <<capital, positions, trades, row, opened, stage>>

----------------------------------------------------------------------------
(* Bounds *)

MaxTime == 3

MaxLedger == 2

\* Rows of the backtest's table
MaxRows == 3

----------------------------------------------------------------------------
(* Program constants and input domains *)

STOP_LOSS_PCT == 6

TAKE_PROFIT_PCT == 10

\* backtest.py:16-17: 100 dollars, in ten-thousandths of a dollar; 20 percent
INITIAL_CAPITAL == 1000000

POSITION_SIZE_PCT == 20

clf_threshold == 580

reg_threshold == 20

short_prob_threshold == 250

short_return_threshold == 0 - 65

\* Values of the two configuration constants of bot.py:51-52: the source's
\* (0 minutes, 1000 trades) and values at which the checks they configure
\* take effect.
CooldownValues == {0, 1, 2}

MaxTradesValues == {1, 1000}

Watchlist == <<"AAPL", "MSFT">>

Symbols == {Watchlist[i] : i \in 1..Len(Watchlist)}

PriceValues == {9000, 10000, 11000}

CashValues == {50000, 100000}

ProbValues == {200, 250, 580, 600}

ReturnValues == {0 - 70, 0 - 65, 20, 30}

Results == {"ack", "failure"}

Faults == {"none", "ledger", "logfmt"}

----------------------------------------------------------------------------
(* Python dict operations on a set of entries keyed by .symbol *)

DictKeys(d) == {e.symbol : e \in d}

DictHas(d, k) == \E e \in d : e.symbol = k

DictGet(d, k) == CHOOSE e \in d : e.symbol = k

DictSetKeepOld(d, k, v) == d \cup {v}

DictSet(d, k, v) == {e \in d : e.symbol # k} \cup {v}

\* A pop that removes nothing
DictPopKeeps(d, k) == d

DictPop(d, k) == {e \in d : e.symbol # k}

DictLen(d) == Cardinality(DictKeys(d))

----------------------------------------------------------------------------
(* Decisions of the loop body *)

CoolingDownOffByOne(s, now) ==
    \E c \in cooldown_tracker : c.symbol = s /\ now <= c.until

CoolingDown(s, now) ==
    \E c \in cooldown_tracker : c.symbol = s /\ now < c.until

MaxTradesReachedStrict(s) ==
    DictLen(active_trades) > MAX_TRADES /\ ~DictHas(active_trades, s)

MaxTradesReached(s) ==
    DictLen(active_trades) >= MAX_TRADES /\ ~DictHas(active_trades, s)

IsActive(s) == s \in position_symbols /\ DictHas(active_trades, s)

QtyAtLeastOne(c, price) == IF c \div (10 * price) > 1 THEN c \div (10 * price) ELSE 1

Qty(c, price) == c \div (10 * price)

LongSignalInclusive(prob, pred_return) ==
    prob >= clf_threshold /\ pred_return >= reg_threshold

LongSignal(prob, pred_return) ==
    prob > clf_threshold /\ pred_return > reg_threshold

ShortSignal(prob, pred_return) ==
    /\ ~LongSignal(prob, pred_return)
    /\ prob < short_prob_threshold
    /\ pred_return < short_return_threshold

\* The models' outputs are inputs of the iteration that leave no trace in the
\* state: each branch is taken for some prob, pred_return of the domains.
LongSignalPossible ==
    (\E prob \in ProbValues, pred_return \in ReturnValues :
        LongSignal(prob, pred_return)) = TRUE

ShortSignalPossible ==
    (\E prob \in ProbValues, pred_return \in ReturnValues :
        ShortSignal(prob, pred_return)) = TRUE

NoSignalPossible ==
    (\E prob \in ProbValues, pred_return \in ReturnValues :
        ~LongSignal(prob, pred_return) /\ ~ShortSignal(prob, pred_return)) = TRUE

ExitReasonStrict(direction, entry_price, price) ==
    IF direction = "long"
    THEN IF 100 * (price - entry_price) < (0 - STOP_LOSS_PCT) * entry_price
         THEN "long_stop_loss"
         ELSE IF 100 * (price - entry_price) > TAKE_PROFIT_PCT * entry_price
              THEN "long_take_profit"
              ELSE "hold"
    ELSE IF 100 * (price - entry_price) > STOP_LOSS_PCT * entry_price
         THEN "short_stop_loss"
         ELSE IF 100 * (price - entry_price) < (0 - TAKE_PROFIT_PCT) * entry_price
              THEN "short_take_profit"
              ELSE "hold"

ExitReason(direction, entry_price, price) ==
    IF direction = "long"
    THEN IF 100 * (price - entry_price) <= (0 - STOP_LOSS_PCT) * entry_price
         THEN "long_stop_loss"
         ELSE IF 100 * (price - entry_price) >= TAKE_PROFIT_PCT * entry_price
              THEN "long_take_profit"
              ELSE "hold"
    ELSE IF 100 * (price - entry_price) >= STOP_LOSS_PCT * entry_price
         THEN "short_stop_loss"
         ELSE IF 100 * (price - entry_price) <= (0 - TAKE_PROFIT_PCT) * entry_price
              THEN "short_take_profit"
              ELSE "hold"

\* The broker's cash after an accepted order fills at the given price: a buy,
\* or the close of a short, pays qty * price; a sell, or the close of a long,
\* receives it.  A rejected order leaves the balance alone.
Fill(result, paying, qty, price) ==
    IF result # "ack" THEN broker_cash
    ELSE IF paying THEN broker_cash - qty * price
    ELSE broker_cash + qty * price

\* A row of trade_log.csv (bot.py:64-72).  The timestamp and price columns
\* are written and never read back; the rows are kept without them.
TradeRecord(s, action, price, qty, reason, direction) ==
    [symbol |-> s, action |-> action, qty |-> qty, reason |-> reason,
     direction |-> direction]

\* log_trade appends one row unless the write raises.
log_trade(fault, rec) == IF fault = "ledger" THEN ledger ELSE Append(ledger, rec)

\* What one loop iteration did: the symbol, the branch taken, the price that
\* sized the order on the entry path (0 elsewhere) and what the order gateway
\* answered to the submit_order or close_position call of the branch ("none"
\* when the branch calls neither), and the place where an exception escaped
\* the iteration ("none" when it ran to its end).
Last(s, step, price, result, fault) ==
    [symbol |-> s, step |-> step, price |-> price, result |-> result,
     fault |-> fault]

\* The value of clock when the time is not tracked
Untimed == 0 - 1

----------------------------------------------------------------------------
(* Initial values of the variables a specification does not use *)

NoCall ==
    [fn |-> "none", direction |-> "none", entry_price |-> 0, price |-> 0,
     prob |-> 0, pred_return |-> 0, done |-> FALSE, reason |-> "none",
     side |-> "none", recorded |-> "none"]

NoRow == [i |-> 0 - 1, price |-> 0, prob |-> 0, pred_return |-> 0]

\* backtest.py:26-28
BacktestStart ==
    /\ capital = INITIAL_CAPITAL
    /\ positions = <<>>
    /\ trades = <<>>
    /\ row = NoRow
    /\ opened = {}
    /\ stage = "start"

\* bot.py:46-56 with the configuration of the source
LiveStart ==
    /\ COOLDOWN_MINUTES = 0
    /\ MAX_TRADES = 1000
    /\ active_trades = {}
    /\ cooldown_tracker = {}
    /\ ledger = <<>>
    /\ account_cash = 100000
    /\ broker_cash = account_cash
    /\ brokerPos = {}
    /\ closing = {}
    /\ clock = 0
    /\ pc = "top"
    /\ idx = 0
    /\ position_symbols = {}
    /\ cash = 0
    /\ last = [symbol |-> "", step |-> "start", price |-> 0, result |-> "none",
               fault |-> "none"]

----------------------------------------------------------------------------
Init ==
    /\ call = NoCall
    /\ BacktestStart
    /\ COOLDOWN_MINUTES \in CooldownValues
    /\ MAX_TRADES \in MaxTradesValues
    /\ active_trades = {}
    /\ cooldown_tracker = {}
    /\ ledger = <<>>
    /\ account_cash \in CashValues
    /\ broker_cash = account_cash
    /\ brokerPos = {}
    /\ closing = {}
    /\ clock = 0
    /\ pc = "top"
    /\ idx = 0
    /\ position_symbols = {}
    /\ cash = 0
    /\ last = [symbol |-> "", step |-> "start", price |-> 0, result |-> "none",
               fault |-> "none"]

\* What no step of the live loop assigns: the configuration, the account
\* object fetched at construction, and the variables of the other two
\* specifications.
Config == <<COOLDOWN_MINUTES, MAX_TRADES, account_cash, call, backtest>>

\* time.sleep(60) and the return to the top of the while loop (bot.py:198,
\* 202).  The cycle's snapshot of the broker's positions is a local that the
\* next cycle overwrites before reading it; it is cleared here.
Sleep ==
    /\ idx' = 0
    /\ pc' = "top"
    /\ clock' = IF clock = Untimed THEN Untimed ELSE clock + 1
    /\ position_symbols' = {}

\* The rest of the cycle after a loop iteration: the next symbol, or, when an
\* exception escaped, the handler of bot.py:200-202 (log, sleep 60).
ContinueOrTerminate(fault) ==
    IF fault = "none"
    THEN /\ idx' = idx + 1
         /\ UNCHANGED <<pc, clock, position_symbols>>
    ELSE /\ pc' = "terminated"
         /\ idx' = 0
         /\ UNCHANGED <<clock, position_symbols>>

Continue(fault) ==
    IF fault = "none"
    THEN /\ idx' = idx + 1
         /\ UNCHANGED <<pc, clock, position_symbols>>
    ELSE Sleep

InLoop == pc = "loop" /\ idx \in 1..Len(Watchlist)

\* Reached past the cooldown and max-trades checks of bot.py:101-108.
Evaluated(s) ==
    /\ InLoop
    /\ s = Watchlist[idx]
    /\ ~CoolingDown(s, clock)
    /\ ~MaxTradesReached(s)

----------------------------------------------------------------------------
(* Top of the while loop *)

MarketClosedIgnored ==
    /\ pc = "top"
    /\ clock < MaxTime
    /\ position_symbols' = brokerPos
    /\ cash' = account_cash
    /\ pc' = "loop"
    /\ idx' = 1
    /\ last' = Last("", "market_closed", 0, "none", "none")
    /\ UNCHANGED <<Config, active_trades, cooldown_tracker, ledger, brokerPos,
                   broker_cash, closing, clock>>

MarketClosed ==
    /\ pc = "top"
    /\ clock < MaxTime
    /\ Sleep
    /\ last' = Last("", "market_closed", 0, "none", "none")
    /\ UNCHANGED <<Config, active_trades, cooldown_tracker, ledger, brokerPos,
                   broker_cash, closing, cash>>

\* get_positions returns [] when list_positions raises.
StartCycle ==
    /\ pc = "top"
    /\ clock < MaxTime
    /\ \E ok \in BOOLEAN :
         position_symbols' = IF ok THEN brokerPos ELSE {}
    /\ cash' = account_cash
    /\ pc' = "loop"
    /\ idx' = 1
    /\ last' = Last("", "cycle_start", 0, "none", "none")
    /\ UNCHANGED <<Config, active_trades, cooldown_tracker, ledger,
                   brokerPos, broker_cash, closing, clock>>

\* bot.py:83-95: is_market_open (alpaca_api.py:148-150, no try of its own) or
\* a snapshot call raises; the handler of bot.py:200-202 logs and sleeps.
SnapshotFault ==
    /\ pc = "top"
    /\ clock < MaxTime
    /\ Continue("snapshot")
    /\ last' = Last("", "snapshot_fault", 0, "none", "snapshot")
    /\ UNCHANGED <<Config, active_trades, cooldown_tracker, ledger, brokerPos,
                   broker_cash, closing, cash>>

EndCycle ==
    /\ pc = "loop"
    /\ idx > Len(Watchlist)
    /\ Sleep
    /\ last' = Last("", "cycle_end", 0, "none", "none")
    /\ UNCHANGED <<Config, active_trades, cooldown_tracker, ledger, brokerPos,
                   broker_cash, closing, cash>>

----------------------------------------------------------------------------
(* One iteration of the for loop, bot.py:97-196 *)

\* bot.py:101-103
SkipCooldown ==
    /\ InLoop
    /\ LET s == Watchlist[idx] IN
         /\ CoolingDown(s, clock)
         /\ last' = Last(s, "cooldown", 0, "none", "none")
    /\ idx' = idx + 1
    /\ UNCHANGED <<Config, active_trades, cooldown_tracker, ledger, brokerPos,
                   broker_cash, closing, clock, pc, position_symbols, cash>>

\* bot.py:106-108
SkipMaxTrades ==
    /\ InLoop
    /\ LET s == Watchlist[idx] IN
         /\ ~CoolingDown(s, clock)
         /\ MaxTradesReached(s)
         /\ last' = Last(s, "max_trades", 0, "none", "none")
    /\ idx' = idx + 1
    /\ UNCHANGED <<Config, active_trades, cooldown_tracker, ledger, brokerPos,
                   broker_cash, closing, clock, pc, position_symbols, cash>>

NoDataEndsCycle ==
    /\ \E s \in Symbols :
         /\ Evaluated(s)
         /\ last' = Last(s, "no_data", 0, "none", "none")
    /\ Sleep
    /\ UNCHANGED <<Config, active_trades, cooldown_tracker, ledger, brokerPos,
                   broker_cash, closing, cash>>

\* bot.py:110-118: no bars, or an empty feature table
NoData ==
    /\ \E s \in Symbols :
         /\ Evaluated(s)
         /\ last' = Last(s, "no_data", 0, "none", "none")
    /\ idx' = idx + 1
    /\ UNCHANGED <<Config, active_trades, cooldown_tracker, ledger, brokerPos,
                   broker_cash, closing, clock, pc, position_symbols, cash>>

\* bot.py:114-126: build_features, the column selection or a model raises
EvalFault ==
    /\ \E s \in Symbols :
         /\ Evaluated(s)
         /\ last' = Last(s, "eval_fault", 0, "none", "eval")
    /\ Continue("eval")
    /\ UNCHANGED <<Config, active_trades, cooldown_tracker, ledger, brokerPos,
                   broker_cash, closing, cash>>

\* bot.py:134-139: prices.get(symbol) is None for a symbol that is not active
PriceMissing ==
    /\ \E s \in Symbols :
         /\ Evaluated(s)
         /\ ~IsActive(s)
         /\ last' = Last(s, "no_price", 0, "none", "none")
    /\ idx' = idx + 1
    /\ UNCHANGED <<Config, active_trades, cooldown_tracker, ledger, brokerPos,
                   broker_cash, closing, clock, pc, position_symbols, cash>>

\* bot.py:142-144
SizeZero ==
    /\ \E s \in Symbols, price \in PriceValues :
         /\ Evaluated(s)
         /\ ~IsActive(s)
         /\ Qty(cash, price) <= 0
         /\ last' = Last(s, "size_zero", price, "none", "none")
    /\ idx' = idx + 1
    /\ UNCHANGED <<Config, active_trades, cooldown_tracker, ledger, brokerPos,
                   broker_cash, closing, clock, pc, position_symbols, cash>>

\* bot.py:147, 159: neither branch is taken
NoSignal ==
    /\ \E s \in Symbols, price \in PriceValues :
         /\ Evaluated(s)
         /\ ~IsActive(s)
         /\ Qty(cash, price) > 0
         /\ NoSignalPossible
         /\ last' = Last(s, "no_signal", 0, "none", "none")
    /\ idx' = idx + 1
    /\ UNCHANGED <<Config, active_trades, cooldown_tracker, ledger, brokerPos,
                   broker_cash, closing, clock, pc, position_symbols, cash>>

\* bot.py:148-156 (side buy, direction long) and bot.py:160-168 (sell, short):
\* submit_order swallows a gateway failure and returns None; the trade is then
\* stored, the ledger row written and the log line formatted.
Enter(s, price, side, direction, result, fault) ==
    LET qty == Qty(cash, price) IN
    /\ Len(ledger) < MaxLedger
    /\ brokerPos' = IF result = "ack" THEN brokerPos \cup {s} ELSE brokerPos
    /\ broker_cash' = Fill(result, side = "buy", qty, price)
    /\ closing' = closing \ {s}
    /\ active_trades' = DictSet(active_trades, s,
            [symbol |-> s, entry_price |-> price, qty |-> qty,
             direction |-> direction])
    /\ ledger' = log_trade(fault,
            TradeRecord(s, side, price, qty, direction \o "_entry", direction))
    /\ last' = Last(s, direction \o "_entry", price, result, fault)
    /\ Continue(fault)
    /\ UNCHANGED <<Config, cooldown_tracker, cash>>

EnterLong ==
    \E s \in Symbols, price \in PriceValues, result \in Results, fault \in Faults :
        /\ Evaluated(s)
        /\ ~IsActive(s)
        /\ Qty(cash, price) > 0
        /\ LongSignalPossible
        /\ Enter(s, price, "buy", "long", result, fault)

EnterShort ==
    \E s \in Symbols, price \in PriceValues, result \in Results, fault \in Faults :
        /\ Evaluated(s)
        /\ ~IsActive(s)
        /\ Qty(cash, price) > 0
        /\ ShortSignalPossible
        /\ Enter(s, price, "sell", "short", result, fault)

\* bot.py:171-190: neither stop-loss nor take-profit
Hold ==
    /\ \E s \in Symbols, price \in PriceValues :
         /\ Evaluated(s)
         /\ IsActive(s)
         /\ LET trade == DictGet(active_trades, s) IN
              ExitReason(trade.direction, trade.entry_price, price) = "hold"
         /\ last' = Last(s, "hold", 0, "none", "none")
    /\ idx' = idx + 1
    /\ UNCHANGED <<Config, active_trades, cooldown_tracker, ledger, brokerPos,
                   broker_cash, closing, clock, pc, position_symbols, cash>>

\* bot.py:171-196: close_position swallows a gateway failure; then the ledger
\* row, the log line, the pop and the cooldown entry, in that order.
Exit ==
    \E s \in Symbols, price \in PriceValues, result \in Results, fault \in Faults :
        /\ Evaluated(s)
        /\ IsActive(s)
        /\ Len(ledger) < MaxLedger
        /\ LET trade  == DictGet(active_trades, s)
               reason == ExitReason(trade.direction, trade.entry_price, price)
           IN
             /\ reason # "hold"
             /\ brokerPos' = IF result = "ack" THEN brokerPos \ {s} ELSE brokerPos
             /\ broker_cash' = Fill(result, trade.direction = "short",
                                    trade.qty, price)
             /\ ledger' = log_trade(fault,
                    TradeRecord(s, "close", price, trade.qty, reason, trade.direction))
             /\ IF fault = "none"
                THEN /\ active_trades' = DictPop(active_trades, s)
                     /\ cooldown_tracker' = DictSet(cooldown_tracker, s,
                            [symbol |-> s, until |-> clock + COOLDOWN_MINUTES])
                     /\ closing' = closing \ {s}
                ELSE /\ UNCHANGED <<active_trades, cooldown_tracker>>
                     /\ closing' = closing \cup {s}
             /\ last' = Last(s, "exit", 0, result, fault)
        /\ Continue(fault)
        /\ UNCHANGED <<Config, cash>>

\* bot.py:175-190: the arithmetic or a comparison on the price of an active
\* symbol raises (prices.get(symbol) is None, or a pandas object in an `if`)
ExitPriceFault ==
    /\ \E s \in Symbols :
         /\ Evaluated(s)
         /\ IsActive(s)
         /\ last' = Last(s, "price_fault", 0, "none", "price")
    /\ Continue("price")
    /\ UNCHANGED <<Config, active_trades, cooldown_tracker, ledger, brokerPos,
                   broker_cash, closing, cash>>

----------------------------------------------------------------------------
Next ==
    \/ MarketClosed
    \/ StartCycle
    \/ SnapshotFault
    \/ EndCycle
    \/ SkipCooldown
    \/ SkipMaxTrades
    \/ NoData
    \/ EvalFault
    \/ PriceMissing
    \/ SizeZero
    \/ NoSignal
    \/ EnterLong
    \/ EnterShort
    \/ Hold
    \/ Exit
    \/ ExitPriceFault

Spec == Init /\ [][Next]_vars

----------------------------------------------------------------------------
(* SignalSpec: main.py installs signal_handler for SIGINT (main.py:27); the *)
(* handler calls sys.exit(0), which raises SystemExit in the main thread    *)
(* wherever it stands: in a sleep, or between two statements of the loop.   *)
(* The handlers on its way out are `except Exception` at bot.py:137, at     *)
(* bot.py:200 and at main.py:40, and those of alpaca_api.py.                *)

CaughtByBareExcept(exc) == TRUE

\* `except Exception` handles instances of Exception; SystemExit derives
\* from BaseException only.
CaughtByExceptException(exc) == exc # "SystemExit"

\* main.py:22-24 and the propagation of its SystemExit through bot.py:200
\* and main.py:40
signal_handler ==
    /\ pc \in {"top", "loop"}
    /\ IF CaughtByExceptException("SystemExit")
       THEN Sleep
       ELSE /\ pc' = "exited"
            /\ UNCHANGED <<idx, clock, position_symbols>>
    /\ last' = Last("", "sigint", 0, "none", "none")
    /\ UNCHANGED <<Config, active_trades, cooldown_tracker, ledger, brokerPos,
                   broker_cash, closing, cash>>

\* A configuration in which every branch of the loop is taken
SignalInit ==
    /\ Init
    /\ COOLDOWN_MINUTES = 2
    /\ MAX_TRADES = 1
    /\ account_cash = 100000

SignalNext == Next \/ signal_handler

SignalSpec == SignalInit /\ [][SignalNext]_vars

----------------------------------------------------------------------------
(* LivenessSpec: the live loop in the configuration of the source, running  *)
(* for ever, in the circumstances that C22 assumes for the second symbol of *)
(* the watchlist.  The single thread of run_trading_bot always takes its    *)
(* next step: weak fairness of the next-state relation.                     *)

Target == Watchlist[2]

\* What C22 assumes, as a condition on the step just taken: the market is
\* open and the snapshots succeed; the broker reports the positions it holds;
\* the Target's bars and price are available and, when it is active, an exit
\* condition holds.  And what keeps the ledger within MaxLedger rows for the
\* Target: trade_log.csv is writable and the other symbol places no order.
Favourable ==
    /\ last.step \notin {"market_closed", "snapshot_fault"}
    /\ last.step = "cycle_start" => position_symbols = brokerPos
    /\ last.symbol = Target =>
         last.step \notin {"no_data", "eval_fault", "price_fault", "hold"}
    /\ last.fault # "ledger"
    /\ (last.symbol # "" /\ last.symbol # Target) =>
         last.step \notin {"long_entry", "short_entry", "exit"}

LivenessInit ==
    /\ call = NoCall
    /\ BacktestStart
    /\ COOLDOWN_MINUTES = 0
    /\ MAX_TRADES = 1000
    /\ active_trades = {}
    /\ cooldown_tracker = {}
    /\ ledger = <<>>
    /\ account_cash = 100000
    /\ broker_cash = account_cash
    /\ brokerPos = {}
    /\ closing = {}
    /\ clock = Untimed
    /\ pc = "top"
    /\ idx = 0
    /\ position_symbols = {}
    /\ cash = 0
    /\ last = [symbol |-> "", step |-> "start", price |-> 0, result |-> "none",
               fault |-> "none"]

FairNext == Next /\ Favourable'

LivenessSpec ==
    /\ LivenessInit
    /\ [][FairNext]_vars
    /\ WF_vars(FairNext)

----------------------------------------------------------------------------
(* DecisionSpec: the exit rule (bot.py:175-190) and the entry rule          *)
(* (bot.py:147-168) of one loop iteration, applied to inputs on both sides  *)
(* of every threshold.                                                      *)

DecisionEntryPrices == {9000, 10000}

DecisionPrices ==
    {8100, 8460, 8461, 9000, 9001, 9400, 9401, 9539, 9540, 9899, 9900, 10000,
     10599, 10600, 10999, 11000}

DecisionProbs == {200, 249, 250, 580, 581, 600}

DecisionReturns == {0 - 70, 0 - 66, 0 - 65, 20, 21, 30}

\* bot.py:147-168: what the entry branch submits and records for the models'
\* outputs: side of the order and direction of the stored trade.
EntryBranch(prob, pred_return) ==
    IF LongSignal(prob, pred_return)
    THEN [side |-> "buy", recorded |-> "long"]
    ELSE IF ShortSignal(prob, pred_return)
         THEN [side |-> "sell", recorded |-> "short"]
         ELSE [side |-> "none", recorded |-> "none"]

DecisionInit ==
    /\ LiveStart
    /\ BacktestStart
    /\ \E fn \in {"exit", "entry"}, direction \in {"long", "short"},
          entry_price \in DecisionEntryPrices, price \in DecisionPrices,
          prob \in DecisionProbs, pred_return \in DecisionReturns :
         /\ fn = "entry" => direction = "long" /\ entry_price = 10000
                               /\ price = 10000
         /\ fn = "exit" => prob \in {200, 600} /\ pred_return \in {0 - 70, 30}
         /\ call = [NoCall EXCEPT !.fn = fn,
                                  !.direction = IF fn = "exit" THEN direction
                                                ELSE "none",
                                  !.entry_price = entry_price,
                                  !.price = price,
                                  !.prob = prob,
                                  !.pred_return = pred_return]

\* bot.py:171-190 for an active symbol
DecideExit ==
    /\ call.fn = "exit"
    /\ ~call.done
    /\ call' = [call EXCEPT
                  !.done = TRUE,
                  !.reason = ExitReason(call.direction, call.entry_price,
                                        call.price)]
    /\ UNCHANGED <<live, backtest>>

\* bot.py:147-168 for a symbol that is not active, with qty > 0
DecideEntry ==
    /\ call.fn = "entry"
    /\ ~call.done
    /\ call' = [call EXCEPT
                  !.done = TRUE,
                  !.side = EntryBranch(call.prob, call.pred_return).side,
                  !.recorded = EntryBranch(call.prob, call.pred_return).recorded]
    /\ UNCHANGED <<live, backtest>>

DecisionNext == DecideExit \/ DecideEntry

DecisionSpec == DecisionInit /\ [][DecisionNext]_vars

----------------------------------------------------------------------------
(* BacktestSpec: src/src/backtest.py.  One action is one iteration of the  *)
(* row loop (exits of the open positions, then the entry), or the closing  *)
(* of the remaining positions after the loop.  The table has between 0 and *)
(* MaxRows rows.  backtest.py:12-15 repeats the thresholds and percentages *)
(* of bot.py with the same values.  capital is kept in ten-thousandths of  *)
(* a dollar and a profit is rounded down to that unit; the script reads    *)
(* capital only in the test capital_to_use > 0.                            *)

BtPrices == {9000, 9400, 10000, 10600, 11000}

\* <<prob, pred_return>>: long entry; short entry; reversal of a long without
\* an entry; nothing.
BtSignals == {<<600, 30>>, <<200, 0 - 70>>, <<400, 0 - 30>>, <<500, 0>>}

\* backtest.py:42-45: numerator of change (the denominator is entry_price)
BtChange(direction, entry_price, price) ==
    IF direction = "long" THEN price - entry_price ELSE entry_price - price

\* backtest.py:47-72
BtExitReason(position, r) ==
    LET e  == position.entry_price
        ch == 100 * BtChange(position.direction, e, r.price)
        reversed ==
            IF position.direction = "long"
            THEN r.prob < 1000 - clf_threshold /\ r.pred_return < 0 - reg_threshold
            ELSE r.prob > clf_threshold /\ r.pred_return > reg_threshold
    IN IF position.direction = "long"
       THEN IF ch <= (0 - STOP_LOSS_PCT) * e THEN "stop_loss"
            ELSE IF ch >= TAKE_PROFIT_PCT * e THEN "take_profit"
            ELSE IF reversed THEN "signal_reverse" ELSE "none"
       ELSE IF ch >= STOP_LOSS_PCT * e THEN "stop_loss"
            ELSE IF ch <= (0 - TAKE_PROFIT_PCT) * e THEN "take_profit"
            ELSE IF reversed THEN "signal_reverse" ELSE "none"

StillOpenAlways(position, r) == TRUE

\* backtest.py:74, 89-90
StillOpen(position, r) == BtExitReason(position, r) = "none"

\* backtest.py:76, 123
ProfitLoss(position, price) ==
    (position.capital_allocated
       * BtChange(position.direction, position.entry_price, price))
      \div position.entry_price

\* backtest.py:78-88, 125-135; the "return" column (a ratio) is left out
Trade(position, exit_index, price, reason) ==
    [entry_index |-> position.entry_index,
     exit_index |-> exit_index,
     entry_price |-> position.entry_price,
     exit_price |-> price,
     direction |-> position.direction,
     capital_allocated |-> position.capital_allocated,
     profit_loss |-> ProfitLoss(position, price),
     reason |-> reason]

RECURSIVE Returned(_, _)
\* backtest.py:77, 124: capital given back by the closed positions
Returned(closed, price) ==
    IF closed = <<>> THEN 0
    ELSE Head(closed).capital_allocated + ProfitLoss(Head(closed), price)
           + Returned(Tail(closed), price)

\* backtest.py:94, 105
BtEntryDirection(r) ==
    IF r.prob > clf_threshold /\ r.pred_return > reg_threshold THEN "long"
    ELSE IF r.prob < short_prob_threshold
              /\ r.pred_return < short_return_threshold THEN "short"
    ELSE "none"

BacktestInit ==
    /\ LiveStart
    /\ call = NoCall
    /\ BacktestStart

\* backtest.py:30-114
BtRow ==
    /\ stage \in {"start", "rows"}
    /\ row.i + 1 < MaxRows
    /\ \E price \in BtPrices, sig \in BtSignals :
         LET r == [i |-> row.i + 1, price |-> price, prob |-> sig[1],
                   pred_return |-> sig[2]]
             Stays(position) == StillOpen(position, r)
             Closes(position) == BtExitReason(position, r) # "none"
             closed == SelectSeq(positions, Closes)
             still_open_positions == SelectSeq(positions, Stays)
             capital_after == capital + Returned(closed, price)
             capital_to_use == (capital_after * POSITION_SIZE_PCT) \div 100
             direction == BtEntryDirection(r)
             enters == direction # "none" /\ capital_to_use > 0
         IN /\ row' = r
            /\ trades' = trades \o
                 [k \in 1..Len(closed) |->
                    Trade(closed[k], r.i, price, BtExitReason(closed[k], r))]
            /\ positions' =
                 IF enters
                 THEN Append(still_open_positions,
                             [entry_index |-> r.i, entry_price |-> price,
                              direction |-> direction,
                              capital_allocated |-> capital_to_use])
                 ELSE still_open_positions
            /\ capital' = IF enters THEN capital_after - capital_to_use
                          ELSE capital_after
            /\ opened' = IF enters THEN opened \cup {r.i} ELSE opened
    /\ stage' = "rows"
    /\ UNCHANGED <<live, call>>

\* backtest.py:116-135: the positions list itself is not emptied
BtEndOfData ==
    /\ stage = "rows"
    /\ trades' = trades \o
         [k \in 1..Len(positions) |->
            Trade(positions[k], row.i, row.price, "end_of_data")]
    /\ capital' = capital + Returned(positions, row.price)
    /\ stage' = "done"
    /\ UNCHANGED <<live, call, positions, row, opened>>

\* backtest.py:117: prices[-1] of an empty table raises IndexError
BtEmptyTable ==
    /\ stage = "start"
    /\ stage' = "failed"
    /\ UNCHANGED <<live, call, capital, positions, trades, row, opened>>

BacktestNext == BtRow \/ BtEndOfData \/ BtEmptyTable

BacktestSpec == BacktestInit /\ [][BacktestNext]_vars

----------------------------------------------------------------------------
TypeOK ==
    /\ COOLDOWN_MINUTES \in CooldownValues
    /\ MAX_TRADES \in MaxTradesValues
    /\ account_cash \in CashValues
    /\ broker_cash \in Int
    /\ brokerPos \subseteq Symbols
    /\ position_symbols \subseteq Symbols
    /\ clock \in Untimed..MaxTime
    /\ pc \in {"top", "loop", "exited"}
    /\ idx \in 0..(Len(Watchlist) + 1)
    /\ Len(ledger) <= MaxLedger
    /\ closing \subseteq DictKeys(active_trades)
    /\ DictKeys(active_trades) \subseteq Symbols
    /\ DictKeys(cooldown_tracker) \subseteq Symbols
    /\ call.fn \in {"none", "exit", "entry"}
    /\ row.i \in (0 - 1)..(MaxRows - 1)
    /\ stage \in {"start", "rows", "done", "failed"}
    /\ opened \subseteq 0..(MaxRows - 1)
    /\ Len(positions) <= MaxRows
    /\ Len(trades) <= MaxRows

----------------------------------------------------------------------------
(* Claims *)

EntrySteps == {"long_entry", "short_entry"}

OrderSteps == EntrySteps \cup {"exit"}

TradesOf(d, s) == {t \in d : t.symbol = s}

\* C1: after any sequence of polling cycles active_trades holds at most one
\* open Position per symbol.
C1_AtMostOnePositionPerSymbol ==
    \A s \in Symbols : Cardinality(TradesOf(active_trades, s)) <= 1

\* C1 witness: a symbol was entered long and then short (or short and then
\* long) with no close in between, and one Position is recorded for it.
C1_Witness ==
    /\ Len(ledger) = 2
    /\ ledger[1].symbol = ledger[2].symbol
    /\ ledger[1].action \in {"buy", "sell"}
    /\ ledger[2].action \in {"buy", "sell"}
    /\ ledger[1].direction # ledger[2].direction
    /\ DictHas(active_trades, ledger[2].symbol)

\* C2 (as claimed): an entry whose submit_order failed records no Position
\* for that symbol.
C2_FailedEntryRecordsNoPosition ==
    [][(InLoop /\ last'.step \in EntrySteps /\ last'.result = "failure")
         => ~DictHas(active_trades', last'.symbol)]_vars

\* C3 (as claimed): an exit whose close_position failed leaves the symbol's
\* Position in active_trades.
C3_FailedCloseKeepsPosition ==
    [][(InLoop /\ last'.step = "exit" /\ last'.result = "failure")
         => DictHas(active_trades', last'.symbol)]_vars

\* C4 (as claimed): once a Position is recorded for a symbol no entry order is
\* submitted for it and the recorded Position stays as it is until an exit
\* removes it.
C4_RecordedPositionOnlyLeavesByExit ==
    [][\A s \in Symbols :
         DictHas(active_trades, s) =>
           /\ ~(InLoop /\ last'.symbol = s /\ last'.step \in EntrySteps)
           /\ \/ TradesOf(active_trades', s) = TradesOf(active_trades, s)
              \/ /\ InLoop
                 /\ last'.symbol = s
                 /\ last'.step = "exit"
                 /\ ~DictHas(active_trades', s)]_vars

\* C5 (as claimed): the iteration in which an exit condition triggers submits
\* the closing order, appends the close row with the direction's reason and
\* the recorded quantity, removes the Position and sets the cooldown entry to
\* now + COOLDOWN_MINUTES.
C5_ExitStepClosesAndCoolsDown ==
    [][(InLoop /\ last'.step = "exit") =>
         LET s == last'.symbol
             trade == DictGet(active_trades, s)
         IN /\ Len(ledger') = Len(ledger) + 1
            /\ LET written == ledger'[Len(ledger')] IN
                 /\ written.symbol = s
                 /\ written.action = "close"
                 /\ written.qty = trade.qty
                 /\ written.direction = trade.direction
                 /\ written.reason \in {trade.direction \o "_stop_loss",
                                    trade.direction \o "_take_profit"}
            /\ ~DictHas(active_trades', s)
            /\ TradesOf(cooldown_tracker', s) =
                 {[symbol |-> s, until |-> clock + COOLDOWN_MINUTES]}]_vars

\* C6 (as claimed): a closing order is submitted only for a symbol with a
\* recorded Position, and only once for that Position.
C6_PositionClosedOnce ==
    [][(InLoop /\ last'.step = "exit") =>
         /\ DictHas(active_trades, last'.symbol)
         /\ last'.symbol \notin closing]_vars

\* C7: an iteration that sizes an entry at floor(0.1 * cash / price) <= 0
\* submits no order, records no Position and writes no row.
C7_ZeroSizeDoesNothing ==
    [][(/\ InLoop
        /\ last'.step \in EntrySteps \cup {"size_zero"}
        /\ cash \div (10 * last'.price) <= 0)
         => /\ last'.step = "size_zero"
            /\ last'.result = "none"
            /\ active_trades' = active_trades
            /\ ledger' = ledger
            /\ brokerPos' = brokerPos]_vars

\* C7 witness: with cash that buys one share at the lower prices, a symbol
\* priced too high for one share was skipped.
C7_Witness ==
    /\ last.step = "size_zero"
    /\ last.price = 11000
    /\ cash = 100000
    /\ ~DictHas(active_trades, last.symbol)

\* C8: a cooldown entry is written only by an exit, as now + COOLDOWN_MINUTES;
\* no entry order is submitted for a symbol while now < until, and a symbol is
\* skipped for cooldown only while now < until (so it is evaluated from
\* now = until on).
C8_CooldownBlocksUntilExpiry ==
    [][/\ InLoop =>
            LET s == Watchlist[idx] IN
            /\ last'.step \in EntrySteps =>
                 \A c \in cooldown_tracker : c.symbol = s => clock >= c.until
            /\ last'.step = "cooldown" =>
                 \E c \in cooldown_tracker : c.symbol = s /\ clock < c.until
            /\ cooldown_tracker' # cooldown_tracker =>
                 /\ last'.step = "exit"
                 /\ cooldown_tracker' =
                      {c \in cooldown_tracker : c.symbol # s}
                        \cup {[symbol |-> s, until |-> clock + COOLDOWN_MINUTES]}
       /\ ~InLoop => cooldown_tracker' = cooldown_tracker]_vars

\* C8 witness: with a cooldown of at least a minute, a symbol was evaluated for
\* entry in the cycle whose time is exactly the end of its cooldown.
C8_Witness ==
    /\ COOLDOWN_MINUTES > 0
    /\ pc = "loop"
    /\ last.step \in EntrySteps \cup {"no_signal"}
    /\ \E c \in cooldown_tracker : c.symbol = last.symbol /\ c.until = clock

\* C9: the number of recorded Positions never exceeds MAX_TRADES; at the limit
\* a symbol without a recorded Position is skipped and nothing changes for it,
\* and only symbols without a recorded Position are skipped for the limit.
C9_MaxTradesRespected ==
    [][/\ Cardinality(DictKeys(active_trades')) <= MAX_TRADES
       /\ InLoop =>
            LET s == Watchlist[idx] IN
            /\ (/\ Cardinality(DictKeys(active_trades)) >= MAX_TRADES
                /\ ~DictHas(active_trades, s))
                 => /\ last'.step \in {"max_trades", "cooldown"}
                    /\ last'.result = "none"
                    /\ active_trades' = active_trades
                    /\ ledger' = ledger
            /\ last'.step = "max_trades" => ~DictHas(active_trades, s)]_vars

\* C9 witness: with a limit of one, the first symbol holds the one Position
\* and the second symbol was skipped for the limit.
C9_Witness ==
    /\ MAX_TRADES = 1
    /\ last.step = "max_trades"
    /\ last.symbol = Watchlist[2]
    /\ DictKeys(active_trades) = {Watchlist[1]}

\* C10 (as claimed): an order submission that returns success has exactly one
\* row appended to the ledger after it, in submission order.
C10_AcceptedOrderHasOneRow ==
    [][(InLoop /\ last'.step \in OrderSteps /\ last'.result = "ack") =>
         /\ Len(ledger') = Len(ledger) + 1
         /\ SubSeq(ledger', 1, Len(ledger)) = ledger
         /\ ledger'[Len(ledger')].symbol = last'.symbol
         /\ ledger'[Len(ledger')].action =
              (IF last'.step = "long_entry" THEN "buy"
               ELSE IF last'.step = "short_entry" THEN "sell" ELSE "close")]_vars

\* C11: an exception raised in a cycle (at the market-open check or the
\* snapshots, or in a symbol's evaluation, order or ledger step) is followed by
\* the sleep and the return to the top of the while loop, from where the next
\* cycle starts; nothing but the step's own effects is lost.
C11_ExceptionEndsCycleNotLoop ==
    [][last'.fault # "none" =>
         /\ pc' = "top"
         /\ idx' = 0
         /\ clock' = clock + 1]_vars

\* C11 witness: a cycle is running after a cycle in which an exit step raised.
C11_Witness ==
    /\ pc = "loop"
    /\ closing # {}
    /\ last.step = "cycle_start"

\* C12 (as claimed): a failure while evaluating or acting on one symbol skips
\* only that symbol; the loop goes on to the next symbol in the same cycle.
C12_FailureSkipsOnlyThatSymbol ==
    [][(InLoop /\ last'.fault # "none") =>
         /\ pc' = "loop"
         /\ idx' = idx + 1
         /\ clock' = clock]_vars

\* C13 (as claimed): the cash a cycle uses to size its entries is the broker's
\* cash balance at the time the cycle takes its snapshots.
C13_CycleCashIsBrokerCash ==
    [][(pc = "top" /\ pc' = "loop") => cash' = broker_cash]_vars

RoseBy(entry_price, price, pct) == 100 * (price - entry_price) >= pct * entry_price

FellBy(entry_price, price, pct) == 100 * (entry_price - price) >= pct * entry_price

\* C14: the exit decision of the live bot is a function of direction, entry
\* price and price only: long_stop_loss iff the price fell by >= 6 %,
\* otherwise long_take_profit iff it rose by >= 10 %; short_stop_loss iff it
\* rose by >= 6 %, otherwise short_take_profit iff it fell by >= 10 %; hold in
\* every other case, whatever prob and pred_return are.  Entry 100.00 closes a
\* long at 94.00 and not at 94.01.
C14_ExitDecisionByPriceChange ==
    (call.fn = "exit" /\ call.done) =>
      LET e == call.entry_price
          p == call.price
          stop == IF call.direction = "long" THEN FellBy(e, p, 6)
                  ELSE RoseBy(e, p, 6)
          take == IF call.direction = "long" THEN RoseBy(e, p, 10)
                  ELSE FellBy(e, p, 10)
      IN /\ call.reason = call.direction \o "_stop_loss" <=> stop
         /\ call.reason = call.direction \o "_take_profit" <=> (~stop /\ take)
         /\ call.reason = "hold" <=> (~stop /\ ~take)
         /\ (call.direction = "long" /\ e = 10000 /\ p = 9400)
              => call.reason = "long_stop_loss"
         /\ (call.direction = "long" /\ e = 10000 /\ p = 9401)
              => call.reason = "hold"

\* C14 witness: a long entered at 100.00 was decided at 94.00 under a long
\* signal of the models, and closed for stop-loss.
C14_Witness ==
    /\ call.fn = "exit"
    /\ call.done
    /\ call.direction = "long"
    /\ call.entry_price = 10000
    /\ call.price = 9400
    /\ call.prob = 600
    /\ call.pred_return = 30
    /\ call.reason = "long_stop_loss"

\* C15: the entry branch is Long (buy, direction long) iff p > 0.58 and
\* r > 0.002, Short (sell, direction short) iff it is not Long and p < 0.25
\* and r < -0.0065, and submits and records nothing otherwise.
C15_EntrySignalVariants ==
    (call.fn = "entry" /\ call.done) =>
      LET isLong == call.prob > 580 /\ call.pred_return > 20
          isShort == ~isLong /\ call.prob < 250 /\ call.pred_return < 0 - 65
      IN /\ isLong <=> (call.side = "buy" /\ call.recorded = "long")
         /\ isShort <=> (call.side = "sell" /\ call.recorded = "short")
         /\ (~isLong /\ ~isShort)
              <=> (call.side = "none" /\ call.recorded = "none")
         /\ (call.prob = 600 /\ call.pred_return = 30) => call.side = "buy"
         /\ (call.prob = 200 /\ call.pred_return = 0 - 70) => call.side = "sell"

\* C15 witness: p = 0.58 with r = 0.003 was decided and gave no entry.
C15_Witness ==
    /\ call.fn = "entry"
    /\ call.done
    /\ call.prob = 580
    /\ call.pred_return = 30
    /\ call.side = "none"

\* The trade appended by this step for the position at index k of positions
\* carries the given reason.
ClosedWith(k, reason) ==
    \E j \in (Len(trades) + 1)..Len(trades') :
        /\ trades'[j].entry_index = positions[k].entry_index
        /\ trades'[j].reason = reason

\* C16 (as claimed): on each row, with change = (entry_price - price) /
\* entry_price, a short position is closed with reason stop_loss iff
\* change <= -6 % and with reason take_profit iff that does not hold and
\* change >= 10 %.
C16_ShortExitMirrorsLong ==
    [][row'.i # row.i =>
         \A k \in 1..Len(positions) :
           positions[k].direction = "short" =>
             LET e == positions[k].entry_price
                 ch == 100 * (e - row'.price)
                 stop == ch <= (0 - 6) * e
                 take == ~stop /\ ch >= 10 * e
             IN /\ ClosedWith(k, "stop_loss") <=> stop
                /\ ClosedWith(k, "take_profit") <=> take]_vars

\* C17 (as claimed): on each row, a position is closed with reason
\* signal_reverse only if neither its stop-loss condition (change <= -6 %) nor
\* its take-profit condition (change >= 10 %) holds, and with reason
\* take_profit only if its stop-loss condition does not hold.
C17_ExitPrecedence ==
    [][row'.i # row.i =>
         \A k \in 1..Len(positions) :
           LET e == positions[k].entry_price
               ch == IF positions[k].direction = "long"
                     THEN 100 * (row'.price - e) ELSE 100 * (e - row'.price)
               stop == ch <= (0 - 6) * e
               take == ch >= 10 * e
           IN /\ ClosedWith(k, "signal_reverse") => (~stop /\ ~take)
              /\ ClosedWith(k, "take_profit") => ~stop]_vars

TradesFor(k) == {j \in 1..Len(trades) : trades[j].entry_index = k}

PositionsFor(k) == {j \in 1..Len(positions) : positions[j].entry_index = k}

\* C18: every position opened is open or closed by exactly one trade while the
\* rows are read, and closed by exactly one trade after the run; a trade
\* written in the row loop has reason stop_loss, take_profit or
\* signal_reverse, a position left at the end is closed at the final price
\* with reason end_of_data, and after the run there are as many trades as
\* positions opened.
C18_EveryPositionClosedOnce ==
    /\ \A j \in 1..Len(trades) : trades[j].entry_index \in opened
    /\ \A k \in opened :
         /\ stage = "rows" =>
              Cardinality(TradesFor(k)) + Cardinality(PositionsFor(k)) = 1
         /\ stage = "done" => Cardinality(TradesFor(k)) = 1
    /\ \A j \in 1..Len(trades) :
         /\ trades[j].reason \in
              {"stop_loss", "take_profit", "signal_reverse", "end_of_data"}
         /\ trades[j].reason = "end_of_data" =>
              /\ stage = "done"
              /\ trades[j].exit_price = row.price
              /\ trades[j].exit_index = row.i
    /\ stage = "done" =>
         /\ Len(trades) = Cardinality(opened)
         /\ \A j \in 1..Len(positions) :
              \E n \in TradesFor(positions[j].entry_index) :
                  trades[n].reason = "end_of_data"

\* C18 witness: the run is over; one position was closed in the row loop and
\* another at the end of the data.
C18_Witness ==
    /\ stage = "done"
    /\ \E j \in 1..Len(trades) : trades[j].reason = "end_of_data"
    /\ \E j \in 1..Len(trades) : trades[j].reason \in {"stop_loss", "take_profit"}

\* C19: a pass of the loop that finds the market closed submits no order,
\* writes no row, leaves active_trades and cooldown_tracker as they are, and
\* is back at the top of the loop (at the gate) after the sleep.
C19_ClosedMarketDoesNothing ==
    [][last'.step = "market_closed" =>
         /\ pc = "top"
         /\ pc' = "top"
         /\ clock' = clock + 1
         /\ active_trades' = active_trades
         /\ cooldown_tracker' = cooldown_tracker
         /\ ledger' = ledger
         /\ brokerPos' = brokerPos
         /\ broker_cash' = broker_cash
         /\ last'.result = "none"]_vars

\* C19 witness: the market was found closed while a Position was recorded and
\* a cooldown entry existed.
C19_Witness ==
    /\ last.step = "market_closed"
    /\ active_trades # {}
    /\ cooldown_tracker # {}

\* C20: an iteration that finds no bars or an empty feature table, or no
\* price for a symbol that is not active, submits no order, leaves the
\* symbol's Position and cooldown entry (and everything else) as they are, and
\* goes on to the next symbol in the same cycle.
C20_DataUnavailableSkipsSymbol ==
    [][(InLoop /\ last'.step \in {"no_data", "no_price"}) =>
         /\ last'.symbol = Watchlist[idx]
         /\ last'.step = "no_price" =>
              ~(Watchlist[idx] \in position_symbols
                  /\ DictHas(active_trades, Watchlist[idx]))
         /\ last'.result = "none"
         /\ active_trades' = active_trades
         /\ cooldown_tracker' = cooldown_tracker
         /\ ledger' = ledger
         /\ brokerPos' = brokerPos
         /\ broker_cash' = broker_cash
         /\ pc' = "loop"
         /\ idx' = idx + 1
         /\ clock' = clock]_vars

\* C20 witness: the first symbol, with a Position recorded, had no data, and
\* the loop stands at the second symbol in the same cycle.
C20_Witness ==
    /\ last.step = "no_data"
    /\ last.symbol = Watchlist[1]
    /\ DictHas(active_trades, Watchlist[1])
    /\ pc = "loop"
    /\ idx = 2

\* C21: the SystemExit raised by the SIGINT handler leaves run_trading_bot and
\* main; the process has exited, and from then on no step of the loop (no
\* cycle, no gateway call, no ledger row) is taken.
C21_SigintStopsLoop ==
    [][/\ pc # "exited"
       /\ last'.step = "sigint" =>
            /\ pc' = "exited"
            /\ ledger' = ledger
            /\ brokerPos' = brokerPos
            /\ broker_cash' = broker_cash]_vars

\* C21 witness: the signal arrived in the middle of a cycle, with a Position
\* recorded, and the process has exited.
C21_Witness ==
    /\ pc = "exited"
    /\ idx = 2
    /\ active_trades # {}

----------------------------------------------------------------------------
\* C22 (as the specification states it): under LivenessSpec, where the market
\* stays open, the broker reports its positions and the Target's bars and
\* price are available with an exit condition that holds, a cycle that starts
\* with a Position of the Target open in the local state and at the broker is
\* followed, sooner or later, by the submission of a closing order for the
\* Target, whatever fails while the other symbol is processed.
C22_OpenPositionEventuallyClosed ==
    (/\ pc = "loop"
     /\ idx = 1
     /\ IsActive(Target)
     /\ Len(ledger) < MaxLedger)
        ~> (last.symbol = Target /\ last.step = "exit")

----------------------------------------------------------------------------
\* C23 (as the specification states it): among the ledger rows of one symbol,
\* the odd rows are entries (buy or sell) and every even row is a close with
\* the direction and the quantity of the entry just before it; so a close
\* always follows its entry and two entries never follow each other.
C23_LedgerAlternates ==
    \A s \in Symbols :
        LET OfSymbol(r) == r.symbol = s
            rows == SelectSeq(ledger, OfSymbol)
        IN  \A k \in 1..Len(rows) :
                IF k % 2 = 1
                THEN rows[k].action \in {"buy", "sell"}
                ELSE /\ rows[k].action = "close"
                     /\ rows[k].direction = rows[k - 1].direction
                     /\ rows[k].qty = rows[k - 1].qty

----------------------------------------------------------------------------
\* C24: a symbol whose cooldown is still running (now < until) has no Position
\* in active_trades; so the cooldown skip of bot.py:101-103 is never taken for
\* a symbol that has a recorded Position open.
C24_CoolingSymbolHasNoPosition ==
    /\ \A c \in cooldown_tracker :
          clock < c.until => ~DictHas(active_trades, c.symbol)
    /\ last.step = "cooldown" => ~DictHas(active_trades, last.symbol)

\* C24 witness: a symbol was skipped for its cooldown, which is still running,
\* while the other symbol has a Position recorded.
C24_Witness ==
    /\ last.step = "cooldown"
    /\ \E c \in cooldown_tracker : c.symbol = last.symbol /\ clock < c.until
    /\ ~DictHas(active_trades, last.symbol)
    /\ active_trades # {}

====
